---- MODULE Spec2Model ----
(***************************************************************************)
(* Pixel Money: the Balance Authority (balance_service) and the Ledger     *)
(* Orchestrator (ledger_service) as state machines.                        *)
(*                                                                         *)
(* Amounts and balances are integers counted in the smallest unit of the   *)
(* NUMERIC(10,2) balance column (one cent).                                *)
(***************************************************************************)
EXTENDS Integers, Sequences, FiniteSets, TLC

\* ------------------------------------------------------------------ bounds
MaxAmt == 2
InitBal == 2
NCallers == 2
NReqs == 2
MaxFaults == 1
NGroupReqs == 2
MaxGroups == 3

\* ------------------------------------------------------------ HTTP statuses
HTTP_200 == 200
HTTP_201 == 201
HTTP_400 == 400
HTTP_404 == 404
HTTP_409 == 409
HTTP_500 == 500
HTTP_503 == 503

\* ------------------------------------------------------------------ universe
UserIds == {1, 2, 3}
GroupIds == {1, 2}
\* balance rows: accounts (BDI, one per user_id) and group_accounts (BDG)
\* the ids the groups table may allocate (autoincrement, from 1)
GroupSeq == 1..MaxGroups
Accts == ({"BDI"} \X UserIds) \cup ({"BDG"} \X (GroupIds \cup GroupSeq))
\* rows present at the start: users 1 and 2 and group 1 have an account
InitRows == {<<"BDI", 1>>, <<"BDI", 2>>, <<"BDG", 1>>}
\* the rows the Balance Authority's direct callers name: a funded account, a
\* user without an account, a group account
BATargets == {<<"BDI", 1>>, <<"BDI", 3>>, <<"BDG", 1>>}
\* the ids whose account creation is requested: an existing funded account,
\* a user and a group without an account, an existing group account
CreateTargets == BATargets \cup {<<"BDG", 2>>}
Amounts == 1..MaxAmt
Callers == 1..NCallers
\* POST /groups requests received by the group service
GReqs == 1..NGroupReqs
\* request attempts received by the ledger; attempt r draws uuid4() = r as its
\* transaction id
Reqs == 1..NReqs
Keys == {1, 2}

\* Idempotency-Key header values that are no UUID: the header is absent
\* (None), its value is the empty string, its value is a malformed string
KeyNone == 0
KeyEmpty == 0 - 1
KeyMalformed == 0 - 2
HeaderValues == Keys \cup {KeyNone, KeyEmpty, KeyMalformed}
\* phone numbers known to the user directory are named by the user they
\* resolve to; 0 is a number no user has; user 3 is registered but has not
\* verified the phone, so no balance row exists for it yet
Phones == {0, 1, 2, 3}
\* who sends requests: user 1 (funded) and user 2 (balance 0)
Senders == {1, 2}

VARIABLES
    rows,       \* the balance rows that exist (accounts / group_accounts)
    balance,    \* Accts -> committed balance of the row
    lock,       \* Accts -> caller holding the row lock (SELECT ... FOR UPDATE), 0 = free
    caller,     \* Callers -> the Balance Authority call the caller has in flight
    lastmut,    \* Callers -> the caller's latest credit/debit call and its answer
    credited,   \* Accts -> sum of the credits answered 200
    debited,    \* Accts -> sum of the debits answered 200
    req,            \* Reqs -> the ledger's handler running the attempt
    transactions,   \* event store: transactions, by id
    transactions_by_user, \* event store: transactions_by_user, by id
    idempotency_keys,     \* event store: key -> transaction_id (0: no row)
    interbank,      \* transaction ids the interbank gateway accepted
    nfaults,        \* transport / event-store faults injected so far
    groups,         \* group service: groups, id -> leader_user_id (0: no row)
    group_members,  \* group service: group_members rows
    greq,           \* GReqs -> the create_group handler serving the request
    group_seq       \* the last id the groups table allocated

bavars == <<rows, balance, lock, caller, lastmut, credited, debited>>
esvars == <<transactions, transactions_by_user, idempotency_keys>>
lovars == <<req, transactions, transactions_by_user, idempotency_keys, interbank, nfaults>>
gsvars == <<groups, group_members, greq, group_seq>>
vars == <<rows, balance, lock, caller, lastmut, credited, debited,
          req, transactions, transactions_by_user, idempotency_keys, interbank, nfaults,
          groups, group_members, greq, group_seq>>

\* a check that answers 200 whatever the balance of an existing row
check_funds_any(acct, amt) ==
    IF acct \notin rows THEN HTTP_404 ELSE HTTP_200

\* ------------------------------------------------------- Balance Authority
\* POST /balance/check: no lock, no state change
check_funds(acct, amt) ==
    IF acct \notin rows THEN HTTP_404
    ELSE IF balance[acct] < amt THEN HTTP_400
    ELSE HTTP_200

\* a credit that answers 200 without adding the amount
credit_balance_noop(bal, amt) == [code |-> HTTP_200, balance |-> bal]

\* POST /balance/credit, /group_balance/credit: the row as updated under the lock
credit_balance(bal, amt) == [code |-> HTTP_200, balance |-> bal + amt]

\* a debit that answers 200 without subtracting the amount
debit_balance_noop(bal, amt) == [code |-> HTTP_200, balance |-> bal]

\* a debit that trusts the advisory check and does not test the funds again
debit_balance_unchecked(bal, amt) == [code |-> HTTP_200, balance |-> bal - amt]

\* a debit that refuses an amount equal to the balance
debit_balance_strict(bal, amt) ==
    IF bal <= amt THEN [code |-> HTTP_400, balance |-> bal]
    ELSE [code |-> HTTP_200, balance |-> bal - amt]

\* POST /balance/debit, /group_balance/debit: the funds test under the lock
debit_balance(bal, amt) ==
    IF bal < amt THEN [code |-> HTTP_400, balance |-> bal]
    ELSE [code |-> HTTP_200, balance |-> bal - amt]

\* an INSERT that no unique constraint stops: the new row, balance 0, takes
\* the place of the one that was there
create_account_replace(exists, bal) == [code |-> HTTP_201, balance |-> 0]

\* POST /accounts, /group_accounts: a row with balance 0 is inserted; the
\* unique user_id (the primary key group_id) makes a second insert raise
\* IntegrityError: rollback, 409
create_account(exists, bal) ==
    IF exists THEN [code |-> HTTP_409, balance |-> bal]
    ELSE [code |-> HTTP_201, balance |-> 0]

\* a plain SELECT: the row is read whoever holds it
without_for_update(acct) == TRUE

\* .with_for_update(): the SELECT waits until no other transaction holds the row
with_for_update(acct) == lock[acct] = 0

\* the balance at the start (rows that exist before the first call)
Balance0 == [a \in Accts |-> IF a = <<"BDI", 1>> THEN InitBal ELSE 0]

\* chk: the answer of the check_funds call the caller made before this call (0: none)
Idle == [pc |-> "idle", kind |-> "none", acct |-> <<"BDI", 1>>, amt |-> 0,
         snap |-> 0, conc |-> FALSE, chk |-> 0]
NoCall == [kind |-> "none", acct |-> <<"BDI", 1>>, amt |-> 0, code |-> 0,
           conc |-> FALSE, chk |-> 0]

\* a caller's credit or debit is in flight on row a
InFlight(c, a) == caller[c].pc \in {"sent", "locked"} /\ caller[c].acct = a

Answer(c, code) ==
    [kind |-> caller[c].kind, acct |-> caller[c].acct, amt |-> caller[c].amt,
     code |-> code, conc |-> caller[c].conc, chk |-> caller[c].chk]

\* ------------------------------------------------------------ event store
NoTx == [user |-> 0, src |-> <<"NONE", 0>>, dst |-> <<"NONE", 0>>,
         type |-> "NONE", amount |-> 0, status |-> "NONE", remote |-> FALSE]

\* a row as the four handlers insert it
TxRow(user, src, dst, type, amount, status) ==
    [user |-> user, src |-> src, dst |-> dst, type |-> type, amount |-> amount,
     status |-> status, remote |-> FALSE]

\* uuid.UUID(key) returns
valid_uuid(key) == key \in Keys

\* check_idempotency: `if not key: return None`; uuid.UUID(key) raising is
\* answered 400; else the transaction id bound to the key, 0 when there is
\* none
check_idempotency(key) ==
    IF key \in {KeyNone, KeyEmpty} THEN [code |-> 0, id |-> 0]
    ELSE IF ~valid_uuid(key) THEN [code |-> HTTP_400, id |-> 0]
    ELSE [code |-> 0, id |-> idempotency_keys[key]]

\* get_transaction_by_id
get_transaction_by_id(id) == transactions[id]

\* LIMIT 50 of the history query
HISTORY_LIMIT == 50

RECURSIVE Descending(_)
\* the ids of S, the latest first (one handler at a time: a later attempt's
\* row has the later created_at)
Descending(S) ==
    IF S = {} THEN <<>>
    ELSE LET r == CHOOSE x \in S : \A y \in S : y <= x
         IN <<r>> \o Descending(S \ {r})

\* GET /transactions/me: SELECT * FROM transactions_by_user WHERE user_id = u
\* ORDER BY created_at DESC LIMIT 50 (the ids of the rows returned)
get_my_transactions(u) ==
    LET all == Descending({r \in Reqs : transactions_by_user[r].user = u})
    IN SubSeq(all, 1, IF Len(all) < HISTORY_LIMIT THEN Len(all) ELSE HISTORY_LIMIT)

\* -------------------------------------------------------- ledger handlers
NoCallOut == [svc |-> "none", kind |-> "none", acct |-> <<"BDI", 1>>, amt |-> 0,
              st |-> "none", reply |-> 0]
NoOut == [code |-> 0, id |-> 0, status |-> "NONE"]

NewReq == [pc |-> "new", op |-> "none", key |-> 0, user |-> 0, amt |-> 0,
           dest |-> 0, call |-> NoCallOut, recipient |-> 0, out |-> NoOut,
           remote |-> FALSE, hit |-> FALSE, conc |-> FALSE, eff |-> <<>>,
           pre |-> [a \in Accts |-> 0], flt |-> FALSE, failed |-> 0,
           gone |-> FALSE]

\* an outbound call of the handler, not yet served (reply 0: no response, the
\* httpx.RequestError case)
Call(svc, kind, acct, amt) ==
    [svc |-> svc, kind |-> kind, acct |-> acct, amt |-> amt, st |-> "sent",
     reply |-> 0]

\* the response the handler gives its client
Out(code, id, status) == [code |-> code, id |-> id, status |-> status]

InitLedger ==
    /\ req = [r \in Reqs |-> NewReq]
    /\ transactions = [r \in Reqs |-> NoTx]
    /\ transactions_by_user = [r \in Reqs |-> NoTx]
    /\ idempotency_keys = [k \in Keys |-> 0]
    /\ interbank = {}
    /\ nfaults = 0

\* the group service at the start: group 1, created by user 1
NoGReq == [pc |-> "new", user |-> 0, id |-> 0, reply |-> 0, out |-> 0]

InitGroups ==
    /\ groups = [g \in GroupSeq |-> IF g = 1 THEN 1 ELSE 0]
    /\ group_members = {[group |-> 1, user |-> 1, role |-> "leader"]}
    /\ greq = [q \in GReqs |-> NoGReq]
    /\ group_seq = 1

InitBA ==
    /\ rows = InitRows
    /\ balance = Balance0
    /\ lock = [a \in Accts |-> 0]
    /\ caller = [c \in Callers |-> Idle]
    /\ lastmut = [c \in Callers |-> NoCall]
    /\ credited = [a \in Accts |-> 0]
    /\ debited = [a \in Accts |-> 0]
    /\ InitLedger
    /\ InitGroups

\* a caller (each makes one call) calls check_funds before a debit (as the ledger's sagas do): one
\* read of the committed row, answered at once
BA_Check(c) ==
    /\ caller[c].pc = "idle"
    /\ lastmut[c].kind = "none"
    /\ \E a \in BATargets, amt \in Amounts :
          /\ a[1] = "BDI"
          /\ caller' = [caller EXCEPT ![c] =
                 [pc |-> "checked", kind |-> "debit", acct |-> a, amt |-> amt,
                  snap |-> 0, conc |-> FALSE, chk |-> check_funds(a, amt)]]
    /\ UNCHANGED <<rows, balance, lock, lastmut, credited, debited>>
    /\ UNCHANGED <<lovars, gsvars>>

\* the caller sends the debit it checked the funds for
BA_SendChecked(c) ==
    /\ caller[c].pc = "checked"
    /\ caller' = [caller EXCEPT ![c].pc = "sent",
                    ![c].conc = \E d \in Callers \ {c} : InFlight(d, caller[c].acct)]
    /\ UNCHANGED <<rows, balance, lock, lastmut, credited, debited>>
    /\ UNCHANGED <<lovars, gsvars>>

\* a caller sends a credit or a debit for a row
BA_Send(c) ==
    /\ caller[c].pc = "idle"
    /\ lastmut[c].kind = "none"
    /\ \E kind \in {"credit", "debit"}, a \in BATargets, amt \in Amounts :
          caller' = [caller EXCEPT ![c] =
                       [pc |-> "sent", kind |-> kind, acct |-> a, amt |-> amt,
                        snap |-> 0, chk |-> 0,
                        conc |-> \E d \in Callers \ {c} : InFlight(d, a)]]
    /\ UNCHANGED <<rows, balance, lock, lastmut, credited, debited>>
    /\ UNCHANGED <<lovars, gsvars>>

\* a caller asks for the creation of an account, answered in one transaction
BA_Create(c) ==
    /\ caller[c].pc = "idle"
    /\ lastmut[c].kind = "none"
    /\ \E a \in CreateTargets :
          LET res == create_account(a \in rows, balance[a])
          IN /\ rows' = IF res.code = HTTP_201 THEN rows \cup {a} ELSE rows
             /\ balance' = [balance EXCEPT ![a] = res.balance]
             /\ lastmut' = [lastmut EXCEPT ![c] =
                    [kind |-> "create", acct |-> a, amt |-> 0, code |-> res.code,
                     conc |-> FALSE, chk |-> 0]]
    /\ UNCHANGED <<lock, caller, credited, debited>>
    /\ UNCHANGED <<lovars, gsvars>>

\* db.begin(); query(...).with_for_update().first(): no row -> 404 and rollback,
\* else the row is locked and read
BA_Select(c) ==
    /\ caller[c].pc = "sent"
    /\ IF caller[c].acct \notin rows
       THEN /\ lastmut' = [lastmut EXCEPT ![c] = Answer(c, HTTP_404)]
            /\ caller' = [caller EXCEPT ![c] = Idle]
            /\ UNCHANGED lock
       ELSE /\ with_for_update(caller[c].acct)
            /\ lock' = [lock EXCEPT ![caller[c].acct] = c]
            /\ caller' = [caller EXCEPT ![c].pc = "locked",
                                        ![c].snap = balance[caller[c].acct]]
            /\ UNCHANGED lastmut
    /\ UNCHANGED <<rows, balance, credited, debited>>
    /\ UNCHANGED <<lovars, gsvars>>

\* the new balance computed from the row read under the lock, written and
\* committed (or rolled back on 400); the lock is released, the caller answered
BA_Update(c) ==
    /\ caller[c].pc = "locked"
    /\ LET a == caller[c].acct
           amt == caller[c].amt
           res == IF caller[c].kind = "credit"
                  THEN credit_balance(caller[c].snap, amt)
                  ELSE debit_balance(caller[c].snap, amt)
           ok == res.code = HTTP_200
       IN /\ balance' = [balance EXCEPT ![a] = IF ok THEN res.balance ELSE @]
          /\ lastmut' = [lastmut EXCEPT ![c] = Answer(c, res.code)]
          /\ credited' = [credited EXCEPT ![a] =
                            IF ok /\ caller[c].kind = "credit" THEN @ + amt ELSE @]
          /\ debited' = [debited EXCEPT ![a] =
                            IF ok /\ caller[c].kind = "debit" THEN @ + amt ELSE @]
          /\ lock' = [lock EXCEPT ![a] = 0]
    /\ caller' = [caller EXCEPT ![c] = Idle]
    /\ UNCHANGED rows
    /\ UNCHANGED <<lovars, gsvars>>

\* ------------------------------------------------ the handlers' environment
\* attempts whose handler is between its first awaited call and its response
Running == {q \in Reqs : req[q].pc \notin {"new", "done"}}

\* a transport or event-store fault may be injected
MayFault(faulty) == faulty /\ nfaults < MaxFaults

\* how a call to the Balance Authority may end: answered; lost before it was
\* served; served but the answer lost (timeout); answered 500
BAOutcomes(faulty) ==
    {"ok"} \cup (IF MayFault(faulty) THEN {"drop", "lost", "e500"} ELSE {})

\* how a lookup in the user directory may end
RDOutcomes(faulty) ==
    {"ok"} \cup (IF MayFault(faulty) THEN {"drop", "e500"} ELSE {})

\* how a call to the interbank gateway may end: the peer accepts or rejects
\* (400, 404, 500); or a transport fault before or after it accepted
IGOutcomes(faulty) ==
    {"accept", "r400", "r404", "r500"}
        \cup (IF MayFault(faulty) THEN {"drop", "lost"} ELSE {})

\* how the event-store writes of one handler step may end: all written; the
\* idempotency insert fails ("bind"); the status update after it fails
\* ("status"); every write fails ("down"); the idempotency insert is written
\* and every later write fails ("bound"); the status update is written but
\* the driver raises a timeout for it ("late")
ESOutcomes(faulty) ==
    {"none"} \cup (IF MayFault(faulty)
                   THEN {"bind", "status", "down", "bound", "late"} ELSE {})

ESDown(faulty) ==
    {"none"} \cup (IF MayFault(faulty) THEN {"down"} ELSE {})

Faults(o) == IF o \in {"ok", "none", "accept", "r400", "r404", "r500"} THEN 0 ELSE 1

\* ------------------------------------------------------------ the preamble
\* the PENDING row each handler inserts after an idempotency miss
PendingRow(op, user, amt, dest) ==
    CASE op = "deposit" ->
            TxRow(user, <<"EXTERNAL", 0>>, <<"BDI", user>>, "DEPOSIT", amt, "PENDING")
      [] op = "transfer" ->
            TxRow(user, <<"BDI", user>>, <<"EXTERNAL_BANK", dest>>, "TRANSFER", amt, "PENDING")
      [] op = "contribute" ->
            TxRow(user, <<"BDI", user>>, <<"BDG", dest>>, "CONTRIBUTION", amt, "PENDING")
      [] OTHER -> NoTx

\* the first call each handler awaits
FirstCall(op, user, amt, dest) ==
    CASE op = "deposit" -> Call("BA", "credit", <<"BDI", user>>, amt)
      [] op = "p2p" -> Call("RD", "by-phone", <<"BDI", dest>>, 0)
      [] OTHER -> Call("BA", "check", <<"BDI", user>>, amt)

\* the destinations a request of the operation may name
Dests(op) ==
    CASE op = "deposit" -> {0}
      [] op = "contribute" -> GroupIds
      [] op = "transfer" -> {1}
      [] OTHER -> Phones

\* A request arrives and the handler runs to its first awaited call: 400
\* when the Idempotency-Key header is absent; check_idempotency (400 for a
\* malformed key); on a hit the bound transaction is returned (500 when the
\* row is missing); on a miss the PENDING row is inserted (deposit and
\* transfer: both tables in one batch; contribute: transactions only; p2p:
\* nothing) and the first call is sent.  At most `k` handlers run at a time;
\* `headers` are the Idempotency-Key values the clients send.
Receive(r, k, faulty, headers) ==
    /\ req[r].pc = "new"
    /\ \A q \in Reqs : q < r => req[q].pc # "new"
    /\ Cardinality(Running) < k
    /\ \E op \in {"deposit", "transfer", "contribute", "p2p"},
          key \in headers, user \in Senders, amt \in Amounts :
       \E dest \in Dests(op), es \in ESDown(faulty) :
          LET found == check_idempotency(key)
              id == found.id
              base == [NewReq EXCEPT !.op = op, !.key = key, !.user = user,
                          !.amt = amt, !.dest = dest, !.pre = balance,
                          !.conc = \E q \in Running : req[q].key = key,
                          !.flt = (es # "none")]
          IN /\ nfaults' = nfaults + Faults(es)
             /\ IF key = KeyNone \/ found.code # 0
                THEN /\ es = "none"
                     /\ req' = [req EXCEPT ![r] =
                            [base EXCEPT !.pc = "done",
                                         !.out = Out(HTTP_400, 0, "NONE")]]
                     /\ UNCHANGED esvars
                ELSE IF es = "down"
                THEN /\ req' = [req EXCEPT ![r] =
                            [base EXCEPT !.pc = "done",
                                         !.out = Out(HTTP_500, 0, "NONE")]]
                     /\ UNCHANGED esvars
                ELSE IF id # 0
                THEN /\ req' = [req EXCEPT ![r] =
                            [base EXCEPT !.pc = "done", !.hit = TRUE,
                               !.out = IF get_transaction_by_id(id) # NoTx
                                       THEN Out(HTTP_201, id,
                                                get_transaction_by_id(id).status)
                                       ELSE Out(HTTP_500, 0, "NONE")]]
                     /\ UNCHANGED esvars
                ELSE /\ req' = [req EXCEPT ![r] =
                            [base EXCEPT !.pc = "await",
                                         !.call = FirstCall(op, user, amt, dest)]]
                     /\ transactions' = [transactions EXCEPT ![r] =
                            PendingRow(op, user, amt, dest)]
                     /\ transactions_by_user' = [transactions_by_user EXCEPT ![r] =
                            IF op \in {"deposit", "transfer"}
                            THEN PendingRow(op, user, amt, dest) ELSE @]
                     /\ UNCHANGED idempotency_keys
    /\ UNCHANGED <<interbank, bavars, gsvars>>

\* ------------------------------------------------- the collaborators serve
\* The Balance Authority serves the call a handler awaits.  The row lock
\* serializes the calls on a row (SpecBA), so a served call is one step here.
ServeBA(r, faulty) ==
    /\ req[r].pc \in {"await", "reverting"}
    /\ req[r].call.svc = "BA" /\ req[r].call.st = "sent"
    /\ \E o \in BAOutcomes(faulty) :
          LET c == req[r].call
              served == o \in {"ok", "lost"}
              res == IF c.acct \notin rows
                     THEN [code |-> HTTP_404, balance |-> 0]
                     ELSE IF c.kind = "check"
                     THEN [code |-> check_funds(c.acct, c.amt),
                           balance |-> balance[c.acct]]
                     ELSE IF c.kind = "credit"
                     THEN credit_balance(balance[c.acct], c.amt)
                     ELSE debit_balance(balance[c.acct], c.amt)
              applied == served /\ c.kind # "check" /\ res.code = HTTP_200
              reply == CASE o = "ok" -> res.code
                         [] o = "e500" -> HTTP_500
                         [] OTHER -> 0
          IN /\ balance' = IF applied
                           THEN [balance EXCEPT ![c.acct] = res.balance]
                           ELSE balance
             /\ req' = [req EXCEPT ![r].call.st = "replied",
                                   ![r].call.reply = reply,
                                   ![r].flt = @ \/ (o # "ok"),
                                   ![r].eff = IF applied
                                       THEN Append(@, <<c.acct, res.balance - balance[c.acct]>>)
                                       ELSE @]
             /\ nfaults' = nfaults + Faults(o)
    /\ UNCHANGED <<rows, lock, caller, lastmut, credited, debited>>
    /\ UNCHANGED <<esvars, interbank, gsvars>>

\* GET /users/by-phone/{phone}: the user's id, or 404
ServeRD(r, faulty) ==
    /\ req[r].pc = "await" /\ req[r].call.svc = "RD" /\ req[r].call.st = "sent"
    /\ \E o \in RDOutcomes(faulty) :
          LET phone == req[r].dest
              reply == CASE o = "ok" -> (IF phone \in UserIds THEN HTTP_200 ELSE HTTP_404)
                         [] o = "e500" -> HTTP_500
                         [] OTHER -> 0
          IN /\ req' = [req EXCEPT ![r].call.st = "replied",
                                   ![r].call.reply = reply,
                                   ![r].flt = @ \/ (o # "ok"),
                                   ![r].recipient = IF reply = HTTP_200 THEN phone ELSE 0]
             /\ nfaults' = nfaults + Faults(o)
    /\ UNCHANGED <<esvars, interbank, bavars, gsvars>>

\* POST /interbank/transfers at the peer institution
ServeIG(r, faulty) ==
    /\ req[r].pc = "await" /\ req[r].call.svc = "IG" /\ req[r].call.st = "sent"
    /\ \E o \in IGOutcomes(faulty) :
          LET reply == CASE o = "accept" -> HTTP_200
                         [] o = "r400" -> HTTP_400
                         [] o = "r404" -> HTTP_404
                         [] o = "r500" -> HTTP_500
                         [] OTHER -> 0
          IN /\ req' = [req EXCEPT ![r].call.st = "replied",
                                   ![r].call.reply = reply,
                                   ![r].flt = @ \/ (Faults(o) = 1)]
             /\ interbank' = IF o \in {"accept", "lost"}
                             THEN interbank \cup {r} ELSE interbank
             /\ nfaults' = nfaults + Faults(o)
    /\ UNCHANGED <<esvars, bavars, gsvars>>

\* ------------------------------------------------------ the handlers' steps
\* a handler that does not look at the status of the response
raise_for_status_any(code) == TRUE

\* response.raise_for_status() passes: a 2xx status (0 stands for
\* httpx.RequestError: no response at all)
raise_for_status(code) == code \in {HTTP_200, HTTP_201}

\* the status code the client gets for a failed call: the callee's own, 503
\* when there was no response
ClientCode(code) == IF code = 0 THEN HTTP_503 ELSE code

\* the handler sends its next call and awaits it
Continue(r, call) ==
    /\ req' = [req EXCEPT ![r].call = call]
    /\ UNCHANGED <<esvars, nfaults>>

\* the handler answers an error without touching the event store
Reject(r, code) ==
    /\ req' = [req EXCEPT ![r].pc = "done", ![r].out = Out(code, 0, "NONE")]
    /\ UNCHANGED <<esvars, nfaults>>

\* the handler writes the failure status (and the metadata) and raises; if
\* the write fails the exception leaves the handler: 500, the row untouched
Fail(r, status, code, es) ==
    /\ es \in {"none", "down"}
    /\ transactions' = [transactions EXCEPT
          ![r].status = IF es = "none" THEN status ELSE @,
          ![r].remote = IF es = "none" THEN req[r].remote ELSE @]
    /\ req' = [req EXCEPT ![r].pc = "done", ![r].flt = @ \/ (es # "none"),
                  ![r].out = IF es = "none" THEN Out(code, 0, "NONE")
                             ELSE Out(HTTP_500, 0, "NONE")]
    /\ nfaults' = nfaults + Faults(es)
    /\ UNCHANGED <<transactions_by_user, idempotency_keys>>

\* a completion that binds the key but leaves the row PENDING
Complete_pending(r, es) ==
    /\ idempotency_keys' = [idempotency_keys EXCEPT ![req[r].key] = r]
    /\ req' = [req EXCEPT ![r].pc = "done",
                  ![r].out = Out(HTTP_201, r, transactions[r].status)]
    /\ nfaults' = nfaults + Faults(es)
    /\ UNCHANGED <<transactions, transactions_by_user>>

\* all calls succeeded: uuid.UUID(idempotency_key), INSERT INTO
\* idempotency_keys, UPDATE status COMPLETED;
\* if any of them raises, UPDATE status PENDING_CONFIRMATION (a step of its
\* own when the COMPLETED update had been written: pc "except"); if that
\* fails too the exception leaves the handler (500).  The row is read back
\* and returned.
Complete(r, es) ==
    LET excepting == req[r].pc = "except"
        nouuid == ~valid_uuid(req[r].key)
        st == CASE (excepting \/ nouuid) /\ es = "none" -> "PENDING_CONFIRMATION"
                [] excepting \/ nouuid -> transactions[r].status
                [] es \in {"none", "late"} -> "COMPLETED"
                [] es \in {"down", "bound"} -> transactions[r].status
                [] OTHER -> "PENDING_CONFIRMATION"
        raised == es \in {"down", "bound"}
        again == ~excepting /\ es = "late"
    IN /\ (excepting \/ nouuid) => es \in {"none", "down"}
       /\ idempotency_keys' = IF ~excepting /\ ~nouuid
                                  /\ es \in {"none", "status", "bound", "late"}
                              THEN [idempotency_keys EXCEPT ![req[r].key] = r]
                              ELSE idempotency_keys
       /\ transactions' = [transactions EXCEPT
             ![r].status = st,
             ![r].remote = IF raised THEN @ ELSE req[r].remote]
       /\ req' = [req EXCEPT ![r].pc = IF again THEN "except" ELSE "done",
                     ![r].flt = @ \/ (es # "none"),
                     ![r].out = IF again THEN @
                                ELSE IF raised THEN Out(HTTP_500, 0, "NONE")
                                ELSE Out(HTTP_201, r, st)]
       /\ nfaults' = nfaults + Faults(es)
       /\ UNCHANGED transactions_by_user

\* the handler's awaited call has returned (or it is in its except block)
Replied(r, op) ==
    /\ req[r].op = op
    /\ req[r].pc \in {"await", "reverting", "except"}
    /\ req[r].call.st = "replied"

\* POST /deposit after the credit call returned
deposit(r, faulty) ==
    /\ Replied(r, "deposit")
    /\ \E es \in ESOutcomes(faulty) :
          LET code == req[r].call.reply
          IN IF raise_for_status(code)
             THEN Complete(r, es)
             ELSE Fail(r, "FAILED_BALANCE_SVC", ClientCode(code), es)
    /\ UNCHANGED <<interbank, bavars, gsvars>>

\* the status /transfer stores for a failed call
transfer_failed_status(code) ==
    CASE code = 0 -> "FAILED_NETWORK"
      [] code = HTTP_400 -> "FAILED_FUNDS"
      [] code = HTTP_404 -> "FAILED_ACCOUNT"
      [] OTHER -> "FAILED_HTTP_500"

\* POST /transfer after a call returned: check funds, then the interbank
\* gateway, then the debit
transfer(r, faulty) ==
    /\ Replied(r, "transfer")
    /\ \E es \in ESOutcomes(faulty) :
          LET c == req[r].call
              sender == <<"BDI", req[r].user>>
          IN IF ~raise_for_status(c.reply)
             THEN Fail(r, transfer_failed_status(c.reply), ClientCode(c.reply), es)
             ELSE IF c.kind = "check"
             THEN es = "none" /\ Continue(r, Call("IG", "transfers", sender, req[r].amt))
             ELSE IF c.svc = "IG"
             THEN /\ es = "none"
                  /\ req' = [req EXCEPT ![r].remote = TRUE,
                                ![r].call = Call("BA", "debit", sender, req[r].amt)]
                  /\ UNCHANGED <<esvars, nfaults>>
             ELSE Complete(r, es)
    /\ UNCHANGED <<interbank, bavars, gsvars>>

\* a client.post whose response is passed to raise_for_status
post_checked(code) == code = HTTP_200

\* `await client.post(...)` in /contribute: the response is dropped, so no
\* status code raises httpx.HTTPStatusError
post_unchecked(code) == TRUE

\* the status the except httpx.HTTPStatusError block of /contribute stores
contribute_failed_status(code) ==
    CASE code = HTTP_400 -> "FAILED_FUNDS"
      [] code = HTTP_404 -> "FAILED_ACCOUNT"
      [] OTHER -> "FAILED_BALANCE_SVC"

\* POST /contribute after a call returned: check, debit, group credit, none
\* of them examined.  The except httpx.HTTPStatusError block (status by
\* code; unless FAILED_FUNDS a credit of the user, suffix _REVERTED or
\* _REVERT_FAILED) runs only when a post raises for its status.
contribute_to_group(r, faulty) ==
    /\ Replied(r, "contribute")
    /\ \E es \in ESOutcomes(faulty) :
          LET c == req[r].call
              user == <<"BDI", req[r].user>>
          IN IF req[r].pc = "reverting"
             THEN Fail(r, contribute_failed_status(req[r].failed)
                            \o (IF raise_for_status(c.reply)
                                THEN "_REVERTED" ELSE "_REVERT_FAILED"),
                       req[r].failed, es)
             ELSE IF c.reply = 0
             THEN Fail(r, "FAILED_NETWORK", HTTP_503, es)
             ELSE IF ~post_unchecked(c.reply)
             THEN IF c.reply = HTTP_400
                  THEN Fail(r, "FAILED_FUNDS", HTTP_400, es)
                  ELSE /\ es = "none"
                       /\ req' = [req EXCEPT ![r].pc = "reverting",
                                     ![r].failed = c.reply,
                                     ![r].call = Call("BA", "credit", user, req[r].amt)]
                       /\ UNCHANGED <<esvars, nfaults>>
             ELSE IF c.kind = "check"
             THEN es = "none" /\ Continue(r, Call("BA", "debit", user, req[r].amt))
             ELSE IF c.kind = "debit"
             THEN es = "none" /\ Continue(r, Call("BA", "credit", <<"BDG", req[r].dest>>, req[r].amt))
             ELSE Complete(r, es)
    /\ UNCHANGED <<interbank, bavars, gsvars>>

\* a step 4 that writes the idempotency row without the transaction rows
p2p_record_unrecorded(r, es) ==
    /\ idempotency_keys' = [idempotency_keys EXCEPT ![req[r].key] = r]
    /\ req' = [req EXCEPT ![r].pc = "done", ![r].out = Out(HTTP_500, 0, "NONE")]
    /\ nfaults' = nfaults + Faults(es)
    /\ UNCHANGED <<transactions, transactions_by_user>>

\* step 4 of /transfer/p2p: the P2P_SENT row, COMPLETED, in both tables in one
\* batch, then uuid.UUID(idempotency_key) and the idempotency row; any
\* failure answers 500
p2p_record(r, es) ==
    LET row == TxRow(req[r].user, <<"BDI", req[r].user>>,
                     <<"BDI", req[r].recipient>>, "P2P_SENT", req[r].amt,
                     "COMPLETED")
        nouuid == ~valid_uuid(req[r].key)
    IN /\ es \in (IF nouuid THEN {"none", "down"} ELSE {"none", "bind", "down"})
       /\ transactions' = IF es = "down" THEN transactions
                          ELSE [transactions EXCEPT ![r] = row]
       /\ transactions_by_user' = IF es = "down" THEN transactions_by_user
                                  ELSE [transactions_by_user EXCEPT ![r] = row]
       /\ idempotency_keys' = IF es = "none" /\ ~nouuid
                              THEN [idempotency_keys EXCEPT ![req[r].key] = r]
                              ELSE idempotency_keys
       /\ req' = [req EXCEPT ![r].pc = "done", ![r].flt = @ \/ (es # "none"),
                     ![r].out = IF es = "none" /\ ~nouuid
                                THEN Out(HTTP_201, r, "COMPLETED")
                                ELSE Out(HTTP_500, 0, "NONE")]
       /\ nfaults' = nfaults + Faults(es)

\* a handler without the self-transfer test
self_transfer_never(r) == FALSE

\* recipient_id == sender_id
self_transfer(r) == req[r].recipient = req[r].user

\* POST /transfer/p2p after a call returned: directory lookup, check, debit
\* of the sender, credit of the recipient; a failed credit is compensated by
\* crediting the sender, and the client gets 503 whatever the compensation did
transfer_p2p(r, faulty) ==
    /\ Replied(r, "p2p")
    /\ \E es \in ESOutcomes(faulty) :
          LET c == req[r].call
              sender == <<"BDI", req[r].user>>
              amt == req[r].amt
          IN IF req[r].pc = "reverting"
             THEN es = "none" /\ Reject(r, HTTP_503)
             ELSE IF c.kind = "credit"
             THEN IF raise_for_status(c.reply)
                  THEN p2p_record(r, es)
                  ELSE /\ es = "none"
                       /\ req' = [req EXCEPT ![r].pc = "reverting",
                                     ![r].call = Call("BA", "credit", sender, amt)]
                       /\ UNCHANGED <<esvars, nfaults>>
             ELSE IF ~raise_for_status(c.reply)
             THEN es = "none" /\ Reject(r, ClientCode(c.reply))
             ELSE IF c.svc = "RD"
             THEN /\ es = "none"
                  /\ IF self_transfer(r)
                     THEN Reject(r, HTTP_400)
                     ELSE Continue(r, Call("BA", "check", sender, amt))
             ELSE IF c.kind = "check"
             THEN es = "none" /\ Continue(r, Call("BA", "debit", sender, amt))
             ELSE es = "none" /\ Continue(r, Call("BA", "credit",
                                                 <<"BDI", req[r].recipient>>, amt))
    /\ UNCHANGED <<interbank, bavars, gsvars>>

\* the ledger with at most k handlers running, with or without faults, the
\* clients sending the given Idempotency-Key values
NextLedger(k, faulty, headers) ==
    \E r \in Reqs :
        \/ Receive(r, k, faulty, headers)
        \/ ServeBA(r, faulty)
        \/ ServeRD(r, faulty)
        \/ ServeIG(r, faulty)
        \/ deposit(r, faulty)
        \/ transfer(r, faulty)
        \/ contribute_to_group(r, faulty)
        \/ transfer_p2p(r, faulty)

Init == InitBA

\* concurrent handlers, transport and event-store faults, UUID keys
Next == NextLedger(2, TRUE, Keys)
Spec == Init /\ [][Next]_vars

\* one handler at a time (each retry sent after the previous response),
\* faults, UUID keys
NextSeq == NextLedger(1, TRUE, Keys)
SpecSeq == Init /\ [][NextSeq]_vars

\* concurrent handlers, every collaborator answers, any header value
NextConc == NextLedger(2, FALSE, HeaderValues)
SpecConc == Init /\ [][NextConc]_vars

\* one handler at a time, every collaborator answers, any header value
NextNominal == NextLedger(1, FALSE, HeaderValues)
SpecNominal == Init /\ [][NextNominal]_vars

\* The client of a running attempt closes its connection.  Neither the
\* handlers nor the middleware watch the connection (no is_disconnected, no
\* receive, no task of their own to cancel): the handler's coroutine goes on.
Disconnect(r) ==
    /\ r \in Running /\ ~req[r].gone
    /\ req' = [req EXCEPT ![r].gone = TRUE]
    /\ UNCHANGED <<esvars, interbank, nfaults, bavars, gsvars>>

\* one handler at a time, every collaborator answers, UUID keys
NextAnswered == NextLedger(1, FALSE, Keys)

\* the same, and clients may disconnect; the event loop keeps running the
\* handlers and the collaborators answer
NextLive == NextAnswered \/ \E r \in Reqs : Disconnect(r)
SpecLive == Init /\ [][NextLive]_vars /\ WF_vars(NextAnswered)

NextBA ==
    \E c \in Callers :
        \/ BA_Check(c) \/ BA_SendChecked(c) \/ BA_Send(c) \/ BA_Select(c)
        \/ BA_Update(c) \/ BA_Create(c)

SpecBA == InitBA /\ [][NextBA]_vars
\* ------------------------------------------------------------ group service
\* POST /groups, up to the call of the Balance Authority: X-User-ID 0 is
\* answered 500; else the Group row is flushed (its id allocated) and the
\* leader's GroupMember row added, both uncommitted, and POST /group_accounts
\* is sent
create_group(q) ==
    /\ greq[q].pc = "new"
    /\ \A p \in GReqs : p < q => greq[p].pc # "new"
    /\ group_seq < MaxGroups
    /\ \E user \in {0} \cup Senders :
          IF user = 0
          THEN /\ greq' = [greq EXCEPT ![q] =
                     [NoGReq EXCEPT !.pc = "done", !.out = HTTP_500]]
               /\ UNCHANGED group_seq
          ELSE /\ group_seq' = group_seq + 1
               /\ greq' = [greq EXCEPT ![q] =
                     [NoGReq EXCEPT !.pc = "await", !.user = user,
                                    !.id = group_seq + 1]]
    /\ UNCHANGED <<groups, group_members, bavars, lovars>>

\* the Balance Authority serves POST /group_accounts of a create_group; the
\* call may get no response, before or after it was served, or a 500
ServeGroupAccount(q) ==
    /\ greq[q].pc = "await"
    /\ \E o \in {"ok", "drop", "lost", "e500"} :
          LET a == <<"BDG", greq[q].id>>
              res == create_account(a \in rows, balance[a])
              served == o \in {"ok", "lost"}
          IN /\ rows' = IF served /\ res.code = HTTP_201 THEN rows \cup {a} ELSE rows
             /\ balance' = IF served THEN [balance EXCEPT ![a] = res.balance]
                           ELSE balance
             /\ greq' = [greq EXCEPT ![q].pc = "replied",
                            ![q].reply = CASE o = "ok" -> res.code
                                           [] o = "e500" -> HTTP_500
                                           [] OTHER -> 0]
    /\ UNCHANGED <<lock, caller, lastmut, credited, debited>>
    /\ UNCHANGED <<groups, group_members, group_seq, lovars>>

\* POST /groups after the call returned: httpx.RequestError -> rollback, 503;
\* raise_for_status raises -> rollback, the Balance Authority's status; else
\* db.commit() (if it raises: rollback, 500) and 201
create_group_commit(q) ==
    /\ greq[q].pc = "replied"
    /\ \E db \in {"ok", "fail"} :
          LET reply == greq[q].reply
              commit == reply # 0 /\ raise_for_status(reply) /\ db = "ok"
              out == IF reply = 0 THEN HTTP_503
                     ELSE IF ~raise_for_status(reply) THEN reply
                     ELSE IF db = "ok" THEN HTTP_201 ELSE HTTP_500
          IN /\ (reply = 0 \/ ~raise_for_status(reply)) => db = "ok"
             /\ groups' = IF commit
                          THEN [groups EXCEPT ![greq[q].id] = greq[q].user]
                          ELSE groups
             /\ group_members' = IF commit
                    THEN group_members \cup
                           {[group |-> greq[q].id, user |-> greq[q].user,
                             role |-> "leader"]}
                    ELSE group_members
             /\ greq' = [greq EXCEPT ![q].pc = "done", ![q].out = out]
    /\ UNCHANGED <<group_seq, bavars, lovars>>

\* the group service, and direct callers creating accounts at the Balance
\* Authority
NextGroups ==
    \/ \E q \in GReqs :
          create_group(q) \/ ServeGroupAccount(q) \/ create_group_commit(q)
    \/ \E c \in Callers : BA_Create(c)

SpecGroups == Init /\ [][NextGroups]_vars

\* -------------------------------------------------- Balance Authority properties
\* C3: in every reachable state every individual balance and every group
\* balance held by the Balance Authority is >= 0.
C3_BalancesNonNegative == \A a \in Accts : balance[a] >= 0

\* a debit that passed the advisory check was rejected under the lock, on a row
\* another debit had emptied
C3_Witness ==
    \E c \in Callers :
        /\ lastmut[c].kind = "debit" /\ lastmut[c].code = HTTP_400
        /\ lastmut[c].chk = HTTP_200
        /\ debited[lastmut[c].acct] > 0
        /\ balance[lastmut[c].acct] = 0

\* C4: whatever the interleaving of the credit and debit calls on a row, its
\* balance is the starting balance plus the credits answered 200 minus the
\* debits answered 200 (no lost update).
C4_NoLostUpdate ==
    \A a \in Accts : balance[a] = Balance0[a] + credited[a] - debited[a]

\* a credit and a debit on the same row, one sent while the other was in
\* flight, both answered 200
C4_Witness ==
    \E c, d \in Callers :
        /\ c # d
        /\ caller[c].pc = "idle" /\ caller[d].pc = "idle"
        /\ lastmut[c].kind = "credit" /\ lastmut[d].kind = "debit"
        /\ lastmut[c].acct = lastmut[d].acct
        /\ lastmut[c].code = HTTP_200 /\ lastmut[d].code = HTTP_200
        /\ (lastmut[c].conc \/ lastmut[d].conc)

\* callers c and d each made a debit of x on row a, and these are the only
\* calls that changed row a
DebitPair(c, d, a, x) ==
    /\ c # d
    /\ caller[c].pc = "idle" /\ caller[d].pc = "idle"
    /\ lastmut[c].kind = "debit" /\ lastmut[d].kind = "debit"
    /\ lastmut[c].acct = a /\ lastmut[d].acct = a
    /\ lastmut[c].amt = x /\ lastmut[d].amt = x
    /\ credited[a] = 0
    /\ debited[a] = x * Cardinality({e \in {c, d} : lastmut[e].code = HTTP_200})

\* C5: two debits of x on one row of balance B, with x <= B < 2x (half the
\* balance plus one unit is such an x): exactly one is answered 200 and the
\* other 400 (insufficient funds), also when both callers passed check_funds.
C5_ExactlyOneDebit ==
    \A c, d \in Callers, a \in Accts, x \in 1..(MaxAmt + 1) :
        (DebitPair(c, d, a, x) /\ x <= Balance0[a] /\ Balance0[a] < 2 * x)
            => {lastmut[c].code, lastmut[d].code} = {HTTP_200, HTTP_400}

\* both callers passed check_funds, the debits were in flight together, one
\* was answered 200 and the other 400
C5_Witness ==
    \E c, d \in Callers, a \in Accts, x \in Amounts :
        /\ DebitPair(c, d, a, x) /\ x <= Balance0[a] /\ Balance0[a] < 2 * x
        /\ lastmut[c].chk = HTTP_200 /\ lastmut[d].chk = HTTP_200
        /\ (lastmut[c].conc \/ lastmut[d].conc)
        /\ lastmut[c].code = HTTP_200 /\ lastmut[d].code = HTTP_400

\* ----------------------------------------------------------- ledger properties
RECURSIVE SumEff(_, _)
\* the net change one attempt's applied calls made to an account
SumEff(eff, a) ==
    IF eff = <<>> THEN 0
    ELSE (IF Head(eff)[1] = a THEN Head(eff)[2] ELSE 0) + SumEff(Tail(eff), a)

Delta(r, a) == SumEff(req[r].eff, a)

Done(r) == req[r].pc = "done"

\* two attempts of one operation with one idempotency key, both answered
SameRequest(q, r) ==
    /\ q < r /\ Done(q) /\ Done(r)
    /\ req[q].op = req[r].op /\ req[q].key = req[r].key
    /\ req[q].user = req[r].user /\ req[q].amt = req[r].amt
    /\ req[q].dest = req[r].dest

\* the attempt is the last one answered and nothing has arrived since
Latest(r) == Done(r) /\ \A q \in Reqs : q > r => req[q].pc = "new"

\* the attempt ran on a fresh key (a UUID) and no transport or event-store fault hit it
Clean(r) == Done(r) /\ valid_uuid(req[r].key) /\ ~req[r].hit /\ ~req[r].flt

RECURSIVE SumCompleted(_, _)
\* the signed sum of the COMPLETED event-store rows that name the account
SumCompleted(S, a) ==
    IF S = {} THEN 0
    ELSE LET r == CHOOSE x \in S : TRUE
             t == transactions[r]
         IN (IF t.status = "COMPLETED" /\ t.dst = a THEN t.amount ELSE 0)
            - (IF t.status = "COMPLETED" /\ t.src = a THEN t.amount ELSE 0)
            + SumCompleted(S \ {r}, a)

\* C1: an operation retried sequentially with the same idempotency key (each
\* retry after the previous response): the successful responses carry the
\* same transaction id and the balance effect is applied by one attempt only.
C1_SequentialRetry ==
    \A q, r \in Reqs :
        SameRequest(q, r) =>
            /\ (req[q].out.code = HTTP_201 /\ req[r].out.code = HTTP_201)
                   => req[q].out.id = req[r].out.id
            /\ \A a \in Accts : Delta(q, a) # 0 => Delta(r, a) = 0

\* C2: two requests of one operation with the same idempotency key in flight
\* together: the balance effect is applied at most once and both successful
\* responses name the same transaction id.
C2_ConcurrentSameKey ==
    \A q, r \in Reqs :
        (SameRequest(q, r) /\ req[r].conc) =>
            /\ (req[q].out.code = HTTP_201 /\ req[r].out.code = HTTP_201)
                   => req[q].out.id = req[r].out.id
            /\ \A a \in Accts : Delta(q, a) # 0 => Delta(r, a) = 0

P2PCompleted(r) ==
    /\ transactions[r].type = "P2P_SENT"
    /\ transactions[r].status = "COMPLETED"

\* C6: a P2P transfer of A that reaches COMPLETED applied exactly one debit
\* of A to the sender and exactly one credit of A to the recipient, so the
\* two changes cancel in the sum of the two balances.
C6_P2PConservation ==
    \A r \in Reqs :
        P2PCompleted(r) =>
            /\ req[r].user # req[r].recipient
            /\ req[r].eff = << <<<<"BDI", req[r].user>>, -req[r].amt>>,
                               <<<<"BDI", req[r].recipient>>, req[r].amt>> >>
            /\ transactions[r].amount = req[r].amt

\* a COMPLETED transfer that ran while another handler was running, or after
\* a failed attempt
C6_Witness ==
    \E r \in Reqs :
        /\ P2PCompleted(r) /\ Done(r)
        /\ balance[<<"BDI", req[r].recipient>>] > 0
        /\ \E q \in Reqs \ {r} : req[q].op = "p2p" /\ Done(q) /\ req[q].flt
                                 /\ req[q].out.code = HTTP_503

\* C7: with no request in flight, every account created with balance 0 holds
\* the sum of the COMPLETED rows crediting it minus those debiting it, and no
\* attempt whose row is FAILED_* or missing has changed a balance.
C7_BalanceIsSumOfCompleted ==
    Running = {} =>
        /\ \A a \in Accts : Balance0[a] = 0 => balance[a] = SumCompleted(Reqs, a)
        /\ \A r \in Reqs :
              (Done(r) /\ transactions[r].status
                            \in {"NONE", "FAILED_BALANCE_SVC", "FAILED_FUNDS",
                                 "FAILED_ACCOUNT", "FAILED_HTTP_500",
                                 "FAILED_NETWORK"})
                  => \A a \in Accts : Delta(r, a) = 0

\* a deposit on a fresh key whose credit call returned success, no fault
CleanDeposit(r) ==
    /\ Clean(r) /\ req[r].op = "deposit"
    /\ req[r].call.reply = HTTP_200

\* C8: a deposit of A for user U with a fresh key whose credit succeeds (and
\* whose event-store writes succeed) returns a COMPLETED transaction of
\* amount A, and U's balance is exactly A higher than before.
C8_DepositCompletes ==
    \A r \in Reqs :
        CleanDeposit(r) =>
            LET u == <<"BDI", req[r].user>>
            IN /\ req[r].out.code = HTTP_201 /\ req[r].out.id = r
               /\ req[r].out.status = "COMPLETED"
               /\ transactions[r].status = "COMPLETED"
               /\ transactions[r].type = "DEPOSIT"
               /\ transactions[r].amount = req[r].amt
               /\ req[r].eff = << <<u, req[r].amt>> >>
               /\ Latest(r) => balance[u] = req[r].pre[u] + req[r].amt

\* a second deposit, of the largest amount, completed after an earlier attempt
C8_Witness ==
    \E r \in Reqs :
        /\ CleanDeposit(r) /\ Latest(r) /\ r > 1
        /\ balance[<<"BDI", req[r].user>>] = req[r].pre[<<"BDI", req[r].user>>] + MaxAmt

\* a contribution on a fresh key by a user holding the amount, to an existing
\* group, no fault
CleanContribution(r) ==
    /\ Clean(r) /\ req[r].op = "contribute"
    /\ <<"BDG", req[r].dest>> \in rows
    /\ req[r].pre[<<"BDI", req[r].user>>] >= req[r].amt

\* C9: a contribution of A from U (balance >= A) to an existing group G with
\* a fresh key returns a COMPLETED transaction of type CONTRIBUTION; U's
\* balance is exactly A lower and G's exactly A higher.
C9_ContributionCompletes ==
    \A r \in Reqs :
        CleanContribution(r) =>
            LET u == <<"BDI", req[r].user>>
                g == <<"BDG", req[r].dest>>
            IN /\ req[r].out.code = HTTP_201 /\ req[r].out.id = r
               /\ req[r].out.status = "COMPLETED"
               /\ transactions[r].type = "CONTRIBUTION"
               /\ transactions[r].status = "COMPLETED"
               /\ req[r].eff = << <<u, -req[r].amt>>, <<g, req[r].amt>> >>
               /\ Latest(r) => /\ balance[u] = req[r].pre[u] - req[r].amt
                               /\ balance[g] = req[r].pre[g] + req[r].amt

\* a contribution that emptied the contributor's account into the group
C9_Witness ==
    \E r \in Reqs :
        /\ CleanContribution(r) /\ Latest(r)
        /\ balance[<<"BDI", req[r].user>>] = 0
        /\ balance[<<"BDG", req[r].dest>>] = InitBal

\* an interbank transfer on a fresh key by a sender holding the amount, which
\* the gateway accepted, no fault
CleanTransfer(r) ==
    /\ Clean(r) /\ req[r].op = "transfer"
    /\ req[r].pre[<<"BDI", req[r].user>>] >= req[r].amt
    /\ r \in interbank

\* C10: an interbank transfer of A by a sender whose balance is >= A, accepted
\* by the gateway, returns a COMPLETED transaction of amount A and the
\* sender's balance is exactly A lower (debited exactly once).
C10_TransferCompletes ==
    \A r \in Reqs :
        CleanTransfer(r) =>
            LET u == <<"BDI", req[r].user>>
            IN /\ req[r].out.code = HTTP_201 /\ req[r].out.id = r
               /\ req[r].out.status = "COMPLETED"
               /\ transactions[r].status = "COMPLETED"
               /\ transactions[r].type = "TRANSFER"
               /\ transactions[r].amount = req[r].amt
               /\ req[r].eff = << <<u, -req[r].amt>> >>
               /\ Latest(r) => balance[u] = req[r].pre[u] - req[r].amt

\* an accepted transfer of one unit, the remote id stored with the row
C10_Witness ==
    \E r \in Reqs :
        /\ CleanTransfer(r) /\ Latest(r)
        /\ transactions[r].remote
        /\ balance[<<"BDI", req[r].user>>] = req[r].pre[<<"BDI", req[r].user>>] - 1

Sender(r) == <<"BDI", req[r].user>>

\* the attempt changed no balance: no applied call, and the balances it found
\* are the balances it left
NoBalanceChange(r) ==
    /\ req[r].eff = <<>>
    /\ Latest(r) => balance = req[r].pre

\* an interbank transfer of more than the sender holds, on a fresh key, no fault
InsufficientTransfer(r) ==
    /\ Clean(r) /\ req[r].op = "transfer"
    /\ req[r].pre[Sender(r)] < req[r].amt

\* C11: an interbank transfer whose amount exceeds the sender's balance is
\* rejected with 400, its row ends FAILED_FUNDS, the balance is unchanged and
\* the interbank gateway is never contacted (the attempt ends at the check).
C11_TransferInsufficientFunds ==
    \A r \in Reqs :
        InsufficientTransfer(r) =>
            /\ req[r].out.code = HTTP_400
            /\ transactions[r].type = "TRANSFER"
            /\ transactions[r].status = "FAILED_FUNDS"
            /\ req[r].call.svc = "BA" /\ req[r].call.kind = "check"
            /\ r \notin interbank
            /\ ~transactions[r].remote
            /\ NoBalanceChange(r)

\* a sender left with one unit after an earlier attempt asks for two
C11_Witness ==
    \E r \in Reqs :
        /\ InsufficientTransfer(r) /\ Latest(r)
        /\ req[r].pre[Sender(r)] = 1 /\ req[r].amt = 2

\* an interbank transfer that ended at the gateway call, its failure stored
GatewayFailure(r) ==
    /\ Done(r) /\ req[r].op = "transfer"
    /\ req[r].call.svc = "IG" /\ req[r].call.reply # HTTP_200
    /\ transactions[r].status # "PENDING"

\* C12: when the gateway rejects a transfer with 4xx/5xx the client gets an
\* error, the row ends FAILED_REMOTE_<code>, no debit is issued and the
\* balance is unchanged; when the gateway is unreachable the row ends
\* FAILED_NETWORK with the same balance guarantee.
C12_GatewayRejection ==
    \A r \in Reqs :
        GatewayFailure(r) =>
            /\ req[r].out.code # HTTP_201
            /\ req[r].eff = <<>>
            /\ req[r].call.reply = HTTP_400 => transactions[r].status = "FAILED_REMOTE_400"
            /\ req[r].call.reply = HTTP_404 => transactions[r].status = "FAILED_REMOTE_404"
            /\ req[r].call.reply = HTTP_500 => transactions[r].status = "FAILED_REMOTE_500"
            /\ req[r].call.reply = 0 => transactions[r].status = "FAILED_NETWORK"

\* a P2P transfer of more than the sender holds, to another user, no fault
InsufficientP2P(r) ==
    /\ Clean(r) /\ req[r].op = "p2p"
    /\ req[r].dest \in UserIds /\ req[r].dest # req[r].user
    /\ req[r].pre[Sender(r)] < req[r].amt

\* C13: a P2P transfer whose amount exceeds the sender's balance is rejected
\* with 400, the attempt's row ends FAILED_FUNDS and neither balance changes.
C13_P2PInsufficientFunds ==
    \A r \in Reqs :
        InsufficientP2P(r) =>
            /\ req[r].out.code = HTTP_400
            /\ transactions[r].status = "FAILED_FUNDS"
            /\ NoBalanceChange(r)

\* a P2P attempt on a fresh key, no fault, that ended at the directory lookup
\* without any call to the Balance Authority
EndedAtLookup(r) ==
    /\ req[r].call.svc = "RD"
    /\ transactions[r] = NoTx
    /\ NoBalanceChange(r)

\* C14: a P2P transfer to the sender's own phone is rejected with 400 and one
\* to a phone of no user with 404; no debit or credit call reaches the
\* Balance Authority and no balance changes.
C14_P2PSelfAndUnknown ==
    \A r \in Reqs :
        (Clean(r) /\ req[r].op = "p2p") =>
            /\ req[r].dest = req[r].user =>
                  (req[r].out.code = HTTP_400 /\ EndedAtLookup(r))
            /\ req[r].dest \notin UserIds =>
                  (req[r].out.code = HTTP_404 /\ EndedAtLookup(r))

\* the funded user was refused a transfer to itself, then one to an unknown phone
C14_Witness ==
    \E q, r \in Reqs :
        /\ q < r /\ Clean(q) /\ Clean(r) /\ Latest(r)
        /\ req[q].op = "p2p" /\ req[r].op = "p2p"
        /\ req[q].user = 1 /\ req[q].dest = 1 /\ req[q].out.code = HTTP_400
        /\ req[r].user = 1 /\ req[r].dest = 0 /\ req[r].out.code = HTTP_404
        /\ balance = Balance0

\* C15: once the stored status of a transaction is other than PENDING, no
\* later write changes it.
C15_TerminalStatusAbsorbing ==
    [][\A r \in Reqs :
          transactions[r].status \notin {"NONE", "PENDING"}
              => transactions'[r].status = transactions[r].status]_vars

\* the attempt has sent a call that can change a balance or reach the gateway
SideEffectCall(r) ==
    \/ req[r].call.svc = "IG"
    \/ req[r].call.svc = "BA" /\ req[r].call.kind \in {"credit", "debit"}

\* C16: for each of the four operations a PENDING row of the attempt is in
\* the event store before the first call that can change a balance or reach
\* the gateway, so a row exists whenever such a call has been sent.
C16_PendingBeforeSideEffect ==
    \A r \in Reqs :
        (SideEffectCall(r) \/ req[r].eff # <<>> \/ r \in interbank)
            => transactions[r] # NoTx

\* C17: every row of the idempotency table refers to a transaction id that
\* exists in the id-keyed transactions table.
C17_BindingHasTransaction ==
    \A k \in Keys :
        idempotency_keys[k] # 0 => transactions[idempotency_keys[k]] # NoTx

\* both keys bound, one by a P2P transfer and one by another operation
C17_Witness ==
    \E k, l \in Keys :
        /\ idempotency_keys[k] # 0 /\ idempotency_keys[l] # 0
        /\ transactions[idempotency_keys[k]].type = "P2P_SENT"
        /\ transactions[idempotency_keys[l]].type \in {"DEPOSIT", "TRANSFER", "CONTRIBUTION"}

\* C18: the transaction bound to any idempotency key has a stored status
\* other than PENDING, so an idempotency hit never returns a PENDING row.
C18_BoundNeverPending ==
    /\ \A k \in Keys :
          idempotency_keys[k] # 0
              => transactions[idempotency_keys[k]].status # "PENDING"
    /\ \A r \in Reqs :
          (req[r].hit /\ req[r].out.code = HTTP_201) => req[r].out.status # "PENDING"

\* a P2P attempt whose credit to the recipient failed after the debit and
\* whose last call is the compensating credit to the sender
Compensated(r) ==
    /\ Done(r) /\ req[r].op = "p2p"
    /\ req[r].call.svc = "BA" /\ req[r].call.kind = "credit"
    /\ req[r].call.acct = Sender(r)

\* C19: when the debit succeeded and the credit to the recipient failed, the
\* compensation credit(sender, amount) is issued; if it succeeds, the
\* sender's and the recipient's balances equal their values before.
C19_CompensationRestores ==
    \A r \in Reqs :
        (Compensated(r) /\ req[r].call.reply = HTTP_200) =>
            /\ \A a \in Accts : Delta(r, a) = 0
            /\ Latest(r) => balance = req[r].pre

RevertFailedStatuses ==
    {"COMPLETED_REVERT_FAILED", "FAILED_FUNDS_REVERT_FAILED",
     "FAILED_ACCOUNT_REVERT_FAILED", "FAILED_BALANCE_SVC_REVERT_FAILED",
     "FAILED_NETWORK_REVERT_FAILED", "FAILED_HTTP_500_REVERT_FAILED"}

\* C20: when the credit to the recipient fails and the compensating credit
\* to the sender also fails, the attempt's row is stored with a status ending
\* in _REVERT_FAILED.
C20_RevertFailureRecorded ==
    \A r \in Reqs :
        (Compensated(r) /\ req[r].call.reply # HTTP_200)
            => transactions[r].status \in RevertFailedStatuses

\* the attempt applied its debit of the sender
HasDebit(r) ==
    \E i \in 1..Len(req[r].eff) : req[r].eff[i] = <<Sender(r), 0 - req[r].amt>>

\* a contribution that ended with the user debited and the group not credited
GroupCreditFailed(r) ==
    /\ Done(r) /\ req[r].op = "contribute" /\ ~req[r].hit /\ ~req[r].flt
    /\ HasDebit(r)
    /\ Delta(r, <<"BDG", req[r].dest>>) = 0

RevertedStatuses ==
    {"FAILED_FUNDS_REVERTED", "FAILED_ACCOUNT_REVERTED",
     "FAILED_BALANCE_SVC_REVERTED", "FAILED_NETWORK_REVERTED",
     "FAILED_HTTP_500_REVERTED"}

\* C21: in a contribution whose debit succeeded and whose group credit then
\* failed, the stored status is the failure status suffixed _REVERTED, with
\* the user's balance restored, or suffixed _REVERT_FAILED.
C21_ContributionCompensated ==
    \A r \in Reqs :
        GroupCreditFailed(r) =>
            /\ transactions[r].status \in RevertedStatuses \cup RevertFailedStatuses
            /\ transactions[r].status \in RevertedStatuses
                   => Delta(r, Sender(r)) = 0

\* a transfer the gateway accepted and whose debit of the sender then failed
DebitFailedAfterAccept(r) ==
    /\ Done(r) /\ req[r].op = "transfer" /\ r \in interbank
    /\ req[r].call.kind = "debit" /\ ~raise_for_status(req[r].call.reply)

\* C22: a transfer the gateway accepted and whose debit then failed is stored
\* as FAILED_DEBIT_POST_CONFIRMATION and no balance was changed for it.
C22_DebitFailedPostConfirmation ==
    \A r \in Reqs :
        DebitFailedAfterAccept(r) =>
            /\ transactions[r].status = "FAILED_DEBIT_POST_CONFIRMATION"
            /\ req[r].eff = <<>>

\* C23: of the attempts of one interbank transfer with one idempotency key,
\* at most one is accepted by the interbank gateway.
C23_GatewayAcceptsOnce ==
    \A q, r \in Reqs :
        (SameRequest(q, r) /\ req[r].op = "transfer")
            => ~(q \in interbank /\ r \in interbank)

\* C29: a contribution is COMPLETED, or has credited the group, only if its
\* funds check and its debit succeeded: the debit of the amount was applied
\* to the user by the same attempt.
C29_CompletedOnlyAfterDebit ==
    \A r \in Reqs :
        (/\ req[r].op = "contribute" /\ ~req[r].hit
         /\ \/ transactions[r].status = "COMPLETED"
            \/ Delta(r, <<"BDG", req[r].dest>>) > 0)
            => HasDebit(r)

NoUuidKey(r) == req[r].op # "none" /\ ~valid_uuid(req[r].key)

\* C24: a request without an Idempotency-Key header, or with a key that is
\* not a valid UUID, is answered 400 and writes nothing to the event store,
\* calls no collaborator and changes no balance.
C24_InvalidKeyRejected ==
    \A r \in Reqs :
        NoUuidKey(r) =>
            /\ req[r].call = NoCallOut
            /\ transactions[r] = NoTx /\ transactions_by_user[r] = NoTx
            /\ req[r].eff = <<>>
            /\ Done(r) /\ req[r].out.code = HTTP_400

\* the transactions the user initiated: the rows of `transactions` he owns
Initiated(u) == {r \in Reqs : transactions[r].user = u}

\* C26: the history of user U holds at most 50 records, every one owned by
\* U, the latest first, and every transaction U initiated when these are 50
\* or fewer.
C26_HistoryComplete ==
    \A u \in Senders :
        LET h == get_my_transactions(u)
        IN /\ Len(h) <= HISTORY_LIMIT
           /\ \A i \in 1..Len(h) : transactions_by_user[h[i]].user = u
           /\ \A i, j \in 1..Len(h) : i < j => h[i] > h[j]
           /\ Cardinality(Initiated(u)) <= HISTORY_LIMIT
                 => \A r \in Initiated(u) : \E i \in 1..Len(h) : h[i] = r

\* the caller's call was a creation of account a answered with the code
Created(c, a, code) ==
    /\ lastmut[c].kind = "create" /\ lastmut[c].acct = a
    /\ lastmut[c].code = code

\* C27: a creation answered 201 made the only row of its id, with balance 0
\* (the balance is what the credits and debits since made of 0); a creation
\* for an id that has a row is answered 409 and leaves the row's balance as
\* it was; no id has two successful creations.
C27_CreateAccount ==
    \A c \in Callers, a \in Accts :
        lastmut[c].kind = "create" /\ lastmut[c].acct = a =>
            /\ a \in rows
            /\ lastmut[c].code \in {HTTP_201, HTTP_409}
            /\ Created(c, a, HTTP_201) =>
                  /\ a \notin InitRows
                  /\ \A d \in Callers \ {c} : ~Created(d, a, HTTP_201)
            /\ Created(c, a, HTTP_409) =>
                  \/ a \in InitRows
                  \/ \E d \in Callers \ {c} : Created(d, a, HTTP_201)
            /\ balance[a] = Balance0[a] + credited[a] - debited[a]

\* an account is created and a second create for the same id is rejected;
\* and a create for the funded account is rejected, its balance still there
C27_Witness ==
    \E c, d \in Callers, a \in Accts :
        /\ c # d /\ Created(c, a, HTTP_201) /\ Created(d, a, HTTP_409)
        /\ balance[a] = 0

\* the request was answered 201
GroupCreated(q) == greq[q].pc = "done" /\ greq[q].out = HTTP_201

\* C28: after a successful creation by user U the group's leader_user_id is
\* U and its only member is U with role leader; and a group is persisted
\* only if the Balance Authority answered its creator that it created the
\* group account (which then exists).
C28_GroupCreation ==
    /\ \A q \in GReqs :
          GroupCreated(q) =>
              /\ groups[greq[q].id] = greq[q].user
              /\ {m \in group_members : m.group = greq[q].id}
                    = {[group |-> greq[q].id, user |-> greq[q].user,
                        role |-> "leader"]}
    /\ \A g \in GroupSeq :
          (groups[g] # 0 /\ g # 1) =>
              /\ <<"BDG", g>> \in rows
              /\ \E q \in GReqs :
                    /\ GroupCreated(q) /\ greq[q].id = g
                    /\ greq[q].reply = HTTP_201

\* one creation succeeded and another, refused by the Balance Authority,
\* left no group and no member
C28_Witness ==
    \E p, q \in GReqs :
        /\ GroupCreated(q)
        /\ greq[p].pc = "done" /\ greq[p].user # 0
        /\ greq[p].reply \in {HTTP_409, HTTP_500}
        /\ groups[greq[p].id] = 0
        /\ \A m \in group_members : m.group # greq[p].id

\* the attempt's row holds a status other than PENDING
Recorded(r) == transactions[r].status \notin {"NONE", "PENDING"}

\* C25: an attempt that has debited its sender eventually has a stored
\* terminal status, whether or not its client disconnected on the way.
C25_DebitedAttemptRecorded ==
    \A r \in Reqs : HasDebit(r) ~> Recorded(r)

\* a contribution whose debit was applied and whose group credit got no
\* response (httpx.RequestError)
GroupCreditUnanswered(r) ==
    /\ Done(r) /\ req[r].op = "contribute" /\ ~req[r].hit
    /\ HasDebit(r)
    /\ req[r].call.acct = <<"BDG", req[r].dest>> /\ req[r].call.reply = 0

\* C31: a contribution whose group credit fails with a network error after
\* the debit succeeded is compensated like one that got an error response:
\* its status ends in _REVERTED or _REVERT_FAILED, never plain FAILED_NETWORK
\* with the debit left applied.
C31_NetworkFailureCompensated ==
    \A r \in Reqs :
        GroupCreditUnanswered(r) =>
            /\ transactions[r].status # "FAILED_NETWORK"
            /\ transactions[r].status \in RevertedStatuses \cup RevertFailedStatuses

\* C34: a transaction has a row in `transactions` exactly when it has one in
\* transactions_by_user, owned by the same user, for all four operations.
C34_BothTablesWritten ==
    \A r \in Reqs :
        /\ (transactions[r] = NoTx) <=> (transactions_by_user[r] = NoTx)
        /\ transactions[r].user = transactions_by_user[r].user

\* C35: after a P2P transfer of A is COMPLETED the event store holds, besides
\* the sender's outgoing record, an incoming record of amount A owned by the
\* recipient, which the recipient's history returns.
C35_P2PIncomingRecord ==
    \A r \in Reqs :
        P2PCompleted(r) =>
            /\ transactions[r].user = req[r].user
            /\ transactions[r].amount = req[r].amt
            /\ \E t \in Reqs :
                  /\ transactions[t].user = req[r].recipient
                  /\ transactions[t].src = Sender(r)
                  /\ transactions[t].dst = <<"BDI", req[r].recipient>>
                  /\ transactions[t].amount = req[r].amt
                  /\ \E i \in 1..Len(get_my_transactions(req[r].recipient)) :
                        get_my_transactions(req[r].recipient)[i] = t

\* the attempt passed the idempotency miss (its handler sent its first call)
\* and has answered its client
Answered(r) == Done(r) /\ req[r].call # NoCallOut

\* C36: when an operation that passed the idempotency miss has returned a
\* response, success or error, the attempt's record exists with a status
\* other than PENDING.
C36_ResponseImpliesRecorded ==
    \A r \in Reqs : Answered(r) => Recorded(r)

\* every money-moving step of the attempt's saga was applied
AllApplied(r) ==
    CASE req[r].op = "deposit" -> Delta(r, Sender(r)) = req[r].amt
      [] req[r].op = "transfer" -> HasDebit(r) /\ r \in interbank
      [] req[r].op = "contribute" ->
            HasDebit(r) /\ Delta(r, <<"BDG", req[r].dest>>) = req[r].amt
      [] req[r].op = "p2p" ->
            HasDebit(r) /\ Delta(r, <<"BDI", req[r].recipient>>) = req[r].amt
      [] OTHER -> FALSE

\* the attempt's calls all succeeded, a row of it was written, and its key is
\* not bound to it
BookkeepingFailed(r) ==
    /\ Done(r) /\ ~req[r].hit /\ valid_uuid(req[r].key)
    /\ AllApplied(r) /\ raise_for_status(req[r].call.reply)
    /\ transactions[r].status \notin {"NONE", "PENDING"}
    /\ idempotency_keys[req[r].key] # r

\* C37: a record is PENDING_CONFIRMATION only if all money-moving steps of
\* its saga were applied; and an attempt whose steps succeeded but whose
\* idempotency binding failed ends as PENDING_CONFIRMATION, for all four
\* operations.
C37_PendingConfirmation ==
    \A r \in Reqs :
        /\ transactions[r].status = "PENDING_CONFIRMATION" => AllApplied(r)
        /\ BookkeepingFailed(r) => transactions[r].status = "PENDING_CONFIRMATION"

\* a deposit whose credit call failed: an error response or no response
DepositCreditFailed(r) ==
    /\ Done(r) /\ req[r].op = "deposit" /\ ~req[r].hit
    /\ req[r].call.kind = "credit" /\ ~raise_for_status(req[r].call.reply)

\* C38: a deposit whose credit call failed is stored FAILED_BALANCE_SVC, the
\* error is returned, the key is not bound, no further call is made and the
\* user's balance was not changed by the attempt.
C38_DepositCreditFailure ==
    \A r \in Reqs :
        DepositCreditFailed(r) =>
            /\ transactions[r].status = "FAILED_BALANCE_SVC"
            /\ req[r].out.code = ClientCode(req[r].call.reply)
            /\ idempotency_keys[req[r].key] # r
            /\ req[r].eff = <<>>

\* C39: after an operation has returned, its row in transactions_by_user
\* holds the status of its row in `transactions`.
C39_HistoryStatusCurrent ==
    \A r \in Reqs :
        (Done(r) /\ transactions_by_user[r] # NoTx)
            => transactions_by_user[r].status = transactions[r].status


\* the position in the attempt's applied calls of the credit of the recipient
RecipientCredits(r) ==
    {i \in 1..Len(req[r].eff) :
        req[r].eff[i] = <<<<"BDI", req[r].recipient>>, req[r].amt>>}

\* the handler of a P2P transfer has sent the credit of the recipient
RecipientCreditSent(r) ==
    /\ req[r].op = "p2p"
    /\ req[r].call.svc = "BA" /\ req[r].call.kind = "credit"
    /\ req[r].call.acct # Sender(r)

\* C32: in a P2P transfer the credit of the recipient is sent, and applied,
\* only after the debit of the sender of the same attempt was applied and
\* answered: no state has a recipient credited by an attempt that did not
\* debit its sender before.
C32_P2PDebitBeforeCredit ==
    \A r \in Reqs :
        req[r].op = "p2p" =>
            /\ RecipientCreditSent(r) =>
                  /\ req[r].recipient # req[r].user
                  /\ req[r].call.acct = <<"BDI", req[r].recipient>>
                  /\ req[r].eff # <<>>
                  /\ Head(req[r].eff) = <<Sender(r), 0 - req[r].amt>>
            /\ \A i \in RecipientCredits(r) :
                  req[r].recipient # req[r].user
                      => \E j \in 1..(i - 1) :
                            req[r].eff[j] = <<Sender(r), 0 - req[r].amt>>

\* one transfer has credited its recipient after its debit, and another one,
\* whose debit was refused for lack of funds, has credited nobody
C32_Witness ==
    \E r, q \in Reqs :
        /\ r # q
        /\ req[r].op = "p2p" /\ RecipientCredits(r) # {} /\ HasDebit(r)
        /\ req[q].op = "p2p" /\ Done(q)
        /\ req[q].call.kind = "debit" /\ req[q].call.reply = HTTP_400
        /\ req[q].eff = <<>>

\* the handler of /transfer sends its call to the interbank gateway in this step
GatewaySend(r) ==
    /\ req[r].call.svc # "IG"
    /\ req'[r].op = "transfer" /\ req'[r].call.svc = "IG"

\* the handler of /transfer sends the debit of the sender in this step
TransferDebitSend(r) ==
    /\ req[r].call.kind # "debit"
    /\ req'[r].op = "transfer" /\ req'[r].call.kind = "debit"

\* C33: an interbank transfer runs check-funds, gateway, debit in this
\* order: the gateway call is sent only in a step that follows a check-funds
\* answered 200 for the attempt, and the debit only in a step that follows
\* the gateway's acceptance of the attempt's intent.
C33_TransferOrder ==
    [][\A r \in Reqs :
          /\ req'[r].op = "transfer" /\ req[r].pc = "new"
                => req'[r].call.kind \in {"none", "check"}
          /\ GatewaySend(r) =>
                /\ req[r].call.kind = "check" /\ req[r].call.st = "replied"
                /\ req[r].call.reply = HTTP_200
                /\ r \notin interbank
                /\ req[r].eff = <<>>
          /\ TransferDebitSend(r) =>
                /\ req[r].call.svc = "IG" /\ req[r].call.st = "replied"
                /\ req[r].call.reply = HTTP_200
                /\ r \in interbank
                /\ req[r].eff = <<>>]_vars

\* a transfer whose debit is on its way after the gateway accepted, and an
\* earlier transfer that the gateway rejected and that sent no debit
C33_Witness ==
    \E r, q \in Reqs :
        /\ req[r].op = "transfer" /\ req[r].pc = "await"
        /\ req[r].call.kind = "debit" /\ req[r].call.st = "sent"
        /\ r \in interbank /\ req[r].remote
        /\ req[q].op = "transfer" /\ Done(q) /\ req[q].call.svc = "IG"
        /\ q \notin interbank /\ req[q].eff = <<>>


\* the Balance Authority answers caller c's debit in this step
DebitAnswered(c) ==
    /\ caller[c].kind = "debit" /\ caller[c].pc \in {"sent", "locked"}
    /\ caller'[c].pc = "idle"

\* caller c's check_funds is answered in this step
CheckAnswered(c) == caller[c].pc = "idle" /\ caller'[c].pc = "checked"

\* C40: a debit of A > 0 on an account of balance B is answered 200 exactly
\* when A <= B, and then the balance becomes B - A (0 when A = B); a
\* rejected debit (A > B, or no such account: 404) leaves every balance as it
\* was; check_funds changes no balance and answers by the same comparison.
C40_DebitIffFunds ==
    [][\A c \in Callers :
          /\ DebitAnswered(c) =>
                LET a == caller[c].acct
                    A == caller[c].amt
                    B == balance[a]
                    code == lastmut'[c].code
                IN /\ A > 0
                   /\ code = HTTP_200 <=> (a \in rows /\ A <= B)
                   /\ code = HTTP_200 => balance' = [balance EXCEPT ![a] = B - A]
                   /\ code # HTTP_200 => balance' = balance
                   /\ code = (IF a \notin rows THEN HTTP_404
                              ELSE IF A > B THEN HTTP_400 ELSE HTTP_200)
                   /\ rows' = rows
          /\ CheckAnswered(c) =>
                LET a == caller'[c].acct
                    A == caller'[c].amt
                IN /\ balance' = balance /\ rows' = rows /\ lock' = lock
                   /\ caller'[c].chk = HTTP_200 <=> (a \in rows /\ A <= balance[a])]_vars

\* a debit of the whole balance was answered 200 and left 0, and a debit of
\* one unit on the emptied account was then refused; a debit on a missing
\* account is not involved
C40_Witness ==
    \E c, d \in Callers :
        /\ c # d
        /\ lastmut[c].kind = "debit" /\ lastmut[c].code = HTTP_200
        /\ lastmut[c].amt = InitBal /\ lastmut[c].acct = <<"BDI", 1>>
        /\ lastmut[d].kind = "debit" /\ lastmut[d].code = HTTP_400
        /\ lastmut[d].amt = 1 /\ lastmut[d].acct = <<"BDI", 1>>
        /\ lastmut[d].chk = 0
        /\ credited[<<"BDI", 1>>] = 0
        /\ balance[<<"BDI", 1>>] = 0

====
